---- MODULE Spec2Model ----
(***************************************************************************)
(* Client state of the Kisaan marketplace: the cart slice and the auth     *)
(* slice of client/src/redux/slices/authSlice.js, with the browser's       *)
(* localStorage they persist to and the REST requests the auth thunks      *)
(* have in flight, and the conversation page of                            *)
(* client/src/pages/farmer/FarmerConversation.jsx.                         *)
(***************************************************************************)
EXTENDS Integers, Sequences, FiniteSets, TLC

VARIABLES
    cartItems,          \* cart slice: ordered cart lines
    farmerId,           \* cart slice: farmer of the cart, null when none
    farmerName,         \* cart slice
    token,              \* auth slice
    user,               \* auth slice
    isAuthenticated,    \* auth slice
    loading,            \* auth slice
    error,              \* auth slice
    localStorage,       \* keys "token", "user", "cartItems"
    tokenFromStorage,   \* module constant read from storage at start-up
    inflight,           \* HTTP requests of the auth thunks awaiting a response
    lastAction,         \* the redux action reduced last, with its notification
    userId,             \* conversation page: counterpart id of the route
    initialLoadComplete, \* conversation page: component state
    translations,       \* conversation page: component state, by message id
    fetches,            \* getConversationMessages calls awaiting their result
    translating,        \* POST /api/translate requests awaiting a response
    loadScrolls,        \* scrolls made by the initial-load effect
    firstFetch          \* outcome of the fetch made when the page was mounted

cartVars == <<cartItems, farmerId, farmerName>>
authVars == <<token, user, isAuthenticated, loading, error, tokenFromStorage, inflight>>
convVars == <<userId, initialLoadComplete, translations, fetches, translating,
              loadScrolls, firstFetch>>
vars == <<cartItems, farmerId, farmerName, token, user, isAuthenticated,
          loading, error, localStorage, tokenFromStorage, inflight, lastAction,
          userId, initialLoadComplete, translations, fetches, translating,
          loadScrolls, firstFetch>>

(***************************************************************************)
(* Bounds and input sets                                                   *)
(***************************************************************************)
MaxStock == 2           \* largest quantityAvailable a product is offered with
MaxDebt == 2            \* line quantities are explored down to -MaxDebt
MaxInFlight == 2        \* auth requests awaiting a response at one time
MaxFetches == 2         \* message-thread fetches awaiting their result at one time
MaxTranslating == 2     \* translation requests awaiting a response at one time
MaxScrolls == 2         \* initial-load scrolls counted

null == "null"          \* JavaScript null / undefined / absent
Absent == <<>>          \* localStorage.getItem(k) === null
Stored(v) == <<v>>      \* a key holding the string v

ProductIds == {"p1", "p2"}
Farmers == {[_id |-> "fA", name |-> "Asha"], [_id |-> "fB", name |-> "Bala"]}
Stock == (-1)..MaxStock
Quantities == (-1)..(MaxStock + 1)
Product == [_id : ProductIds, farmer : Farmers, quantityAvailable : Stock]

Tokens == {"t1", "t2"}
Users == {"u1", "u2"}

(***************************************************************************)
(* JSON.stringify / JSON.parse of the values the slices store              *)
(***************************************************************************)
JSONstringify(v) == [json |-> v]
JSONparse(s) == s.json

(***************************************************************************)
(* Cart slice                                                              *)
(***************************************************************************)
\* A cart as the reducers see it, with the stored "cartItems" value and the
\* notification raised by the reducer.
CartState(items, fid, fname, stored, toast) ==
    [cartItems |-> items, farmerId |-> fid, farmerName |-> fname,
     stored |-> stored, toast |-> toast]

\* The product data embedded in a line (its display fields are left out).
\* A line's product field is <<>> when the stored line has none.
ProductSnapshot(product) == [_id |-> product._id, farmer |-> product.farmer]

\* The line pushed for a product.  Of the display fields the source stores
\* (name, image, price, unit) none is read by a reducer; they are left out.
NewLine(product, quantity) ==
    [productId |-> product._id, quantity |-> quantity,
     farmerId |-> product.farmer._id, farmerName |-> product.farmer.name,
     product |-> <<ProductSnapshot(product)>>]

find_none(items, productId) == 0

find(items, productId) ==
    IF \E i \in 1..Len(items) : items[i].productId = productId
    THEN LET i == CHOOSE i \in 1..Len(items) :
                    /\ items[i].productId = productId
                    /\ \A j \in 1..(i - 1) : items[j].productId # productId
         IN  i
    ELSE 0

outOfStock(product) == product.quantityAvailable <= 0

exceedsStock_off(product, quantity) == FALSE

exceedsStock(product, quantity) == quantity > product.quantityAvailable

sameFarm_open(c, product) == TRUE

sameFarm(c, product) ==
    Len(c.cartItems) = 0 \/ product.farmer._id = c.farmerId

mergeExceedsStock_off(existItem, product, quantity) == FALSE

mergeExceedsStock(existItem, product, quantity) ==
    existItem.quantity + quantity > product.quantityAvailable

addToCart(c, product, quantity) ==
    IF outOfStock(product)
    THEN [c EXCEPT !.toast = "error: out of stock"]
    ELSE IF exceedsStock(product, quantity)
    THEN [c EXCEPT !.toast = "error: only available"]
    ELSE IF sameFarm(c, product)
    THEN LET k == find(c.cartItems, product._id) IN
         IF k # 0
         THEN IF mergeExceedsStock(c.cartItems[k], product, quantity)
              THEN [c EXCEPT !.toast = "error: cannot add more"]
              ELSE LET merged == [i \in 1..Len(c.cartItems) |->
                                    IF c.cartItems[i].productId = product._id
                                    THEN [c.cartItems[i] EXCEPT
                                            !.quantity = c.cartItems[k].quantity + quantity,
                                            !.product =
                                                IF c.cartItems[i].product # <<>>
                                                THEN c.cartItems[i].product
                                                ELSE <<ProductSnapshot(product)>>]
                                    ELSE c.cartItems[i]]
                   IN  CartState(merged, c.farmerId, c.farmerName,
                                 Stored(JSONstringify(merged)), "info: updated quantity")
         ELSE LET pushed == Append(c.cartItems, NewLine(product, quantity))
                  adopt == c.farmerId = null
              IN  CartState(pushed,
                            IF adopt THEN product.farmer._id ELSE c.farmerId,
                            IF adopt THEN product.farmer.name ELSE c.farmerName,
                            Stored(JSONstringify(pushed)), "success: added")
    ELSE [c EXCEPT !.toast = "error: one farm at a time"]

removeFromCart_keepFarmer(c, productId) ==
    LET kept(item) == item.productId # productId
        items == SelectSeq(c.cartItems, kept)
    IN  CartState(items, c.farmerId, c.farmerName,
                  Stored(JSONstringify(items)), "info: removed")

removeFromCart(c, productId) ==
    LET kept(item) == item.productId # productId
        items == SelectSeq(c.cartItems, kept)
        empty == Len(items) = 0
    IN  CartState(items,
                  IF empty THEN null ELSE c.farmerId,
                  IF empty THEN null ELSE c.farmerName,
                  Stored(JSONstringify(items)), "info: removed")

updateCartQuantity_unsaved(c, productId, quantity) ==
    IF find(c.cartItems, productId) = 0
    THEN [c EXCEPT !.toast = "error: not found"]
    ELSE IF quantity <= 0
    THEN [c EXCEPT !.toast = "error: must be greater than 0"]
    ELSE LET items == [i \in 1..Len(c.cartItems) |->
                         IF c.cartItems[i].productId = productId
                         THEN [c.cartItems[i] EXCEPT !.quantity = quantity]
                         ELSE c.cartItems[i]]
         IN  CartState(items, c.farmerId, c.farmerName, c.stored, "none")

updateCartQuantity_allowsZero(c, productId, quantity) ==
    IF find(c.cartItems, productId) = 0
    THEN [c EXCEPT !.toast = "error: not found"]
    ELSE IF quantity < 0
    THEN [c EXCEPT !.toast = "error: must be greater than 0"]
    ELSE LET items == [i \in 1..Len(c.cartItems) |->
                         IF c.cartItems[i].productId = productId
                         THEN [c.cartItems[i] EXCEPT !.quantity = quantity]
                         ELSE c.cartItems[i]]
         IN  CartState(items, c.farmerId, c.farmerName,
                       Stored(JSONstringify(items)), "none")

updateCartQuantity(c, productId, quantity) ==
    IF find(c.cartItems, productId) = 0
    THEN [c EXCEPT !.toast = "error: not found"]
    ELSE IF quantity <= 0
    THEN [c EXCEPT !.toast = "error: must be greater than 0"]
    ELSE LET items == [i \in 1..Len(c.cartItems) |->
                         IF c.cartItems[i].productId = productId
                         THEN [c.cartItems[i] EXCEPT !.quantity = quantity]
                         ELSE c.cartItems[i]]
         IN  CartState(items, c.farmerId, c.farmerName,
                       Stored(JSONstringify(items)), "none")

clearCart_keepFarmer(c) ==
    CartState(<<>>, c.farmerId, c.farmerName, Absent, "info: cleared")

clearCart(c) == CartState(<<>>, null, null, Absent, "info: cleared")

\* The cart restored at module load.
cartItemsFromStorage(storage) ==
    IF storage.cartItems # Absent THEN JSONparse(storage.cartItems[1]) ELSE <<>>

\* Stored lines of an older layout get a product built from their own fields.
migratedCartItems(items) ==
    [i \in 1..Len(items) |->
        IF items[i].product = <<>>
        THEN [items[i] EXCEPT !.product =
                <<[_id |-> items[i].productId,
                   farmer |-> [_id |-> items[i].farmerId,
                               name |-> items[i].farmerName]]>>]
        ELSE items[i]]

cartInitialState(storage) ==
    LET items == migratedCartItems(cartItemsFromStorage(storage)) IN
    [cartItems |-> items,
     farmerId |-> IF Len(items) > 0 THEN items[1].farmerId ELSE null,
     farmerName |-> IF Len(items) > 0 THEN items[1].farmerName ELSE null]

cart == CartState(cartItems, farmerId, farmerName, localStorage.cartItems, "none")

\* Line quantities stay within the explored range.
WithinRange(items) ==
    \A i \in 1..Len(items) :
        items[i].quantity >= -MaxDebt /\ items[i].quantity <= MaxStock + 1

CartStep(type, payload, c) ==
    /\ WithinRange(c.cartItems)
    /\ cartItems' = c.cartItems
    /\ farmerId' = c.farmerId
    /\ farmerName' = c.farmerName
    /\ localStorage' = [localStorage EXCEPT !.cartItems = c.stored]
    /\ lastAction' = [type |-> type, payload |-> payload, toast |-> c.toast,
                      on |-> "dispatch", linesBefore |-> Len(cartItems)]
    /\ UNCHANGED <<authVars, convVars>>

AddToCart ==
    \E product \in Product, quantity \in Quantities :
        CartStep("cart/addToCart", [product |-> product, quantity |-> quantity],
                 addToCart(cart, product, quantity))

RemoveFromCart ==
    \E productId \in ProductIds :
        CartStep("cart/removeFromCart", productId, removeFromCart(cart, productId))

UpdateCartQuantity ==
    \E productId \in ProductIds, quantity \in Quantities :
        CartStep("cart/updateCartQuantity",
                 [productId |-> productId, quantity |-> quantity],
                 updateCartQuantity(cart, productId, quantity))

ClearCart == CartStep("cart/clearCart", null, clearCart(cart))

CartNext == AddToCart \/ RemoveFromCart \/ UpdateCartQuantity \/ ClearCart

(***************************************************************************)
(* Auth slice: reducers                                                    *)
(***************************************************************************)
auth == [token |-> token, user |-> user, isAuthenticated |-> isAuthenticated,
         loading |-> loading, error |-> error]

clearError(a) == [a EXCEPT !.error = null]

register_pending(a) == [a EXCEPT !.loading = TRUE, !.error = null]

register_fulfilled_guarded(a, payload) ==
    IF a.isAuthenticated
    THEN [a EXCEPT !.loading = FALSE]
    ELSE [a EXCEPT !.loading = FALSE, !.isAuthenticated = TRUE,
                   !.token = payload.token, !.user = payload.user]

register_fulfilled(a, payload) ==
    [a EXCEPT !.loading = FALSE, !.isAuthenticated = TRUE,
              !.token = payload.token, !.user = payload.user]

register_rejected(a, payload) == [a EXCEPT !.loading = FALSE, !.error = payload]

login_pending(a) == [a EXCEPT !.loading = TRUE, !.error = null]

login_fulfilled(a, payload) ==
    [a EXCEPT !.loading = FALSE, !.isAuthenticated = TRUE,
              !.token = payload.token, !.user = payload.user]

login_rejected_clears(a, payload) ==
    [a EXCEPT !.loading = FALSE, !.error = payload, !.isAuthenticated = FALSE,
              !.token = null, !.user = null]

login_rejected(a, payload) == [a EXCEPT !.loading = FALSE, !.error = payload]

loadUser_pending(a) == [a EXCEPT !.loading = TRUE, !.error = null]

loadUser_fulfilled(a, payload) ==
    [a EXCEPT !.loading = FALSE, !.isAuthenticated = TRUE, !.user = payload.user]

loadUser_rejected_keepsToken(a) ==
    [a EXCEPT !.loading = FALSE, !.isAuthenticated = FALSE, !.user = null]

loadUser_rejected(a) ==
    [a EXCEPT !.loading = FALSE, !.isAuthenticated = FALSE,
              !.token = null, !.user = null]

\* The storage removals the loadUser.rejected reducer performs itself.
loadUser_rejected_storage(storage) ==
    [storage EXCEPT !.token = Absent, !.user = Absent]

updateProfile_pending(a) == [a EXCEPT !.loading = TRUE, !.error = null]

updateProfile_fulfilled(a, payload) ==
    [a EXCEPT !.loading = FALSE, !.user = payload.data]

updateProfile_rejected(a, payload) == [a EXCEPT !.loading = FALSE, !.error = payload]

logout_fulfilled(a) ==
    [a EXCEPT !.token = null, !.isAuthenticated = FALSE, !.user = null]

(***************************************************************************)
(* Auth slice: thunks                                                      *)
(***************************************************************************)
\* What axios rejects with: an HTTP error whose body carries a message, an
\* HTTP error without one, or a transport failure without a response.
Errors ==
    {[response |-> TRUE, dataMessage |-> "Invalid credentials",
      message |-> "Request failed with status code 401"],
     [response |-> TRUE, dataMessage |-> null,
      message |-> "Request failed with status code 500"],
     [response |-> FALSE, dataMessage |-> null, message |-> "Network Error"]}

Failure(err) == [ok |-> FALSE, error |-> err]
Success(data) == [ok |-> TRUE, data |-> data]

SessionData == [token : Tokens, user : Users]

NoTokenFound == "No token found"

\* message = error.response && error.response.data.message ? ... : error.message
errorMessage_dataOnly(err) == err.dataMessage

errorMessage(err) ==
    IF err.response /\ err.dataMessage # null THEN err.dataMessage ELSE err.message

Settled(status, payload, storage) ==
    [status |-> status, payload |-> payload, storage |-> storage]

\* The part of each payload creator that runs once the response is there.
register_thunk(storage, res) ==
    IF res.ok
    THEN Settled("fulfilled", res.data,
                 [storage EXCEPT !.token = Stored(res.data.token),
                                 !.user = Stored(JSONstringify(res.data.user))])
    ELSE Settled("rejected", errorMessage(res.error), storage)

login_thunk_tokenOnly(storage, res) ==
    IF res.ok
    THEN Settled("fulfilled", res.data,
                 [storage EXCEPT !.token = Stored(res.data.token)])
    ELSE Settled("rejected", errorMessage(res.error), storage)

login_thunk(storage, res) ==
    IF res.ok
    THEN Settled("fulfilled", res.data,
                 [storage EXCEPT !.token = Stored(res.data.token),
                                 !.user = Stored(JSONstringify(res.data.user))])
    ELSE Settled("rejected", errorMessage(res.error), storage)

\* const token = getState().auth.token || tokenFromStorage
loadUser_token(a, fromStorage) == IF a.token # null THEN a.token ELSE fromStorage

loadUser_thunk(storage, res) ==
    IF res.ok
    THEN Settled("fulfilled", res.data, storage)
    ELSE Settled("rejected", errorMessage(res.error),
                 [storage EXCEPT !.token = Absent, !.user = Absent])

updateProfile_thunk(storage, res) ==
    IF res.ok
    THEN Settled("fulfilled", res.data,
                 [storage EXCEPT !.user = Stored(JSONstringify(res.data.data))])
    ELSE Settled("rejected", errorMessage(res.error), storage)

logout_thunk_keepsUser(storage) ==
    Settled("fulfilled", null, [storage EXCEPT !.token = Absent])

logout_thunk(storage) ==
    Settled("fulfilled", null, [storage EXCEPT !.token = Absent, !.user = Absent])

(***************************************************************************)
(* Auth slice: steps                                                       *)
(***************************************************************************)
\* inflight lists the requests without a response in the order they were
\* sent.  overtaken records that a login or register sent after the request
\* has been fulfilled while the request was still waiting.
Request(thunk, bearer) == [thunk |-> thunk, bearer |-> bearer, overtaken |-> FALSE]

Awaiting(thunk) == {i \in 1..Len(inflight) : inflight[i].thunk = thunk}

SessionThunks == {"register", "login"}

\* inflight once the request at position i has got its response.
Answered(i, thunk, status) ==
    LET marked == [j \in 1..Len(inflight) |->
                     IF /\ j < i
                        /\ thunk \in SessionThunks
                        /\ status = "fulfilled"
                        /\ inflight[j].thunk \in SessionThunks
                     THEN [inflight[j] EXCEPT !.overtaken = TRUE]
                     ELSE inflight[j]]
    IN  SubSeq(marked, 1, i - 1) \o SubSeq(marked, i + 1, Len(marked))

AuthAction(type, payload, toast, on) ==
    [type |-> type, payload |-> payload, toast |-> toast, on |-> on,
     overtaken |-> FALSE]

SetAuth(a) ==
    /\ token' = a.token
    /\ user' = a.user
    /\ isAuthenticated' = a.isAuthenticated
    /\ loading' = a.loading
    /\ error' = a.error

\* dispatch(thunk(arg)): the pending action is reduced and the request leaves.
Send(thunk, bearer, a) ==
    /\ Len(inflight) < MaxInFlight
    /\ inflight' = Append(inflight, Request(thunk, bearer))
    /\ SetAuth(a)
    /\ lastAction' = AuthAction("auth/" \o thunk \o "/pending", null, "none", "dispatch")
    /\ UNCHANGED <<localStorage, tokenFromStorage, cartVars, convVars>>

\* The response of the request at position i arrives: the payload creator
\* finishes and its fulfilled or rejected action is reduced.
Settle(i, thunk, r, a, storage, toast) ==
    /\ inflight' = Answered(i, thunk, r.status)
    /\ SetAuth(a)
    /\ localStorage' = storage
    /\ lastAction' = [AuthAction("auth/" \o thunk \o "/" \o r.status, r.payload,
                                 toast, "response")
                        EXCEPT !.overtaken = inflight[i].overtaken]
    /\ UNCHANGED <<tokenFromStorage, cartVars, convVars>>

Register == Send("register", null, register_pending(auth))

RegisterFulfilled ==
    \E i \in Awaiting("register"), data \in SessionData :
        LET r == register_thunk(localStorage, Success(data)) IN
        Settle(i, "register", r, register_fulfilled(auth, r.payload), r.storage,
               "success: Registration successful!")

RegisterRejected ==
    \E i \in Awaiting("register"), err \in Errors :
        LET r == register_thunk(localStorage, Failure(err)) IN
        Settle(i, "register", r, register_rejected(auth, r.payload), r.storage,
               "error: " \o r.payload)

Login == Send("login", null, login_pending(auth))

LoginFulfilled ==
    \E i \in Awaiting("login"), data \in SessionData :
        LET r == login_thunk(localStorage, Success(data)) IN
        Settle(i, "login", r, login_fulfilled(auth, r.payload), r.storage,
               "success: Login successful!")

LoginRejected ==
    \E i \in Awaiting("login"), err \in Errors :
        LET r == login_thunk(localStorage, Failure(err)) IN
        Settle(i, "login", r, login_rejected(auth, r.payload), r.storage,
               "error: " \o r.payload)

\* Without a token the payload creator returns rejectWithValue at once and
\* the rejected action follows the pending one within the same task.
LoadUser ==
    LET bearer == loadUser_token(auth, tokenFromStorage) IN
    IF bearer = null
    THEN /\ SetAuth(loadUser_rejected(loadUser_pending(auth)))
         /\ localStorage' = loadUser_rejected_storage(localStorage)
         /\ lastAction' = AuthAction("auth/loadUser/rejected", NoTokenFound, "none", "dispatch")
         /\ UNCHANGED <<inflight, tokenFromStorage, cartVars, convVars>>
    ELSE Send("loadUser", bearer, loadUser_pending(auth))

LoadUserFulfilled ==
    \E i \in Awaiting("loadUser"), u \in Users :
        LET r == loadUser_thunk(localStorage, Success([user |-> u])) IN
        Settle(i, "loadUser", r, loadUser_fulfilled(auth, r.payload), r.storage, "none")

LoadUserRejected ==
    \E i \in Awaiting("loadUser"), err \in Errors :
        LET r == loadUser_thunk(localStorage, Failure(err)) IN
        Settle(i, "loadUser", r, loadUser_rejected(auth),
               loadUser_rejected_storage(r.storage), "none")

UpdateProfile == Send("updateProfile", token, updateProfile_pending(auth))

UpdateProfileFulfilled ==
    \E i \in Awaiting("updateProfile"), u \in Users :
        LET r == updateProfile_thunk(localStorage, Success([data |-> u])) IN
        Settle(i, "updateProfile", r, updateProfile_fulfilled(auth, r.payload), r.storage,
               "success: Profile updated successfully!")

UpdateProfileRejected ==
    \E i \in Awaiting("updateProfile"), err \in Errors :
        LET r == updateProfile_thunk(localStorage, Failure(err)) IN
        Settle(i, "updateProfile", r, updateProfile_rejected(auth, r.payload), r.storage,
               "error: " \o r.payload)

\* logout awaits nothing: storage is cleared and logout.fulfilled reduced
\* within the task that dispatched it.
Logout ==
    LET r == logout_thunk(localStorage) IN
    /\ SetAuth(logout_fulfilled(auth))
    /\ localStorage' = r.storage
    /\ lastAction' = AuthAction("auth/logout/fulfilled", r.payload,
                                "success: Logged out successfully!", "dispatch")
    /\ UNCHANGED <<inflight, tokenFromStorage, cartVars, convVars>>

ClearError ==
    /\ SetAuth(clearError(auth))
    /\ lastAction' = AuthAction("auth/clearError", null, "none", "dispatch")
    /\ UNCHANGED <<inflight, localStorage, tokenFromStorage, cartVars, convVars>>

AuthNext ==
    \/ Register \/ RegisterFulfilled \/ RegisterRejected
    \/ Login \/ LoginFulfilled \/ LoginRejected
    \/ LoadUser \/ LoadUserFulfilled \/ LoadUserRejected
    \/ UpdateProfile \/ UpdateProfileFulfilled \/ UpdateProfileRejected
    \/ Logout \/ ClearError

(***************************************************************************)
(* Conversation page                                                       *)
(***************************************************************************)
UserIds == {"buyer1", "buyer2"}
MessageIds == {"m1", "m2"}

\* message.content of the messages shown with a translate button.
content == [m \in MessageIds |-> IF m = "m1" THEN "hello" ELSE "what price"]

\* res.data.translated for a text.
translated(text) == "hi: " \o text

TranslationFailed == "Translation failed"

\* translations[messageId]: <<>> while undefined, else <<entry>>.
Untranslated == <<>>

Entry(text, showOriginal) == <<[translated |-> text, showOriginal |-> showOriginal]>>

\* The text of the message paragraph.
displayed(messageId) ==
    LET t == translations[messageId] IN
    IF t # Untranslated
    THEN IF t[1].showOriginal THEN content[messageId] ELSE t[1].translated
    ELSE content[messageId]

toggle(t) == Entry(t[1].translated, ~t[1].showOriginal)

ConvEvent(type, payload, on, wasComplete) ==
    [type |-> type, payload |-> payload, toast |-> "none", on |-> on,
     wasComplete |-> wasComplete]

\* The effect on [dispatch, userId]: a thread fetch (and mark-as-read) per
\* counterpart id.
Fetch(u, first) == [userId |-> u, first |-> first]

\* The route changes to another counterpart: the load effect runs again.
ChangeCounterpart ==
    \E u \in UserIds \ {userId} :
        /\ Len(fetches) < MaxFetches
        /\ userId' = u
        /\ fetches' = Append(fetches, Fetch(u, FALSE))
        /\ lastAction' = ConvEvent("conversation/userId", u, "route", initialLoadComplete)
        /\ UNCHANGED <<initialLoadComplete, translations, translating, loadScrolls,
                       firstFetch, cartVars, authVars, localStorage>>

Without(s, i) == SubSeq(s, 1, i - 1) \o SubSeq(s, i + 1, Len(s))

scrollOnLoad_everyFetch(before, after, mounted) == after /\ mounted

\* The effect on [initialLoadComplete]: it runs when the value has changed and
\* scrolls when the value is true and the messages container is rendered.
scrollOnLoad(before, after, mounted) == before # after /\ after /\ mounted

\* A fetch succeeds: then() sets initialLoadComplete.  The container is not
\* rendered while the loader is shown.
FetchFulfilled ==
    \E i \in 1..Len(fetches), mounted \in BOOLEAN :
        /\ loadScrolls < MaxScrolls
        /\ fetches' = Without(fetches, i)
        /\ initialLoadComplete' = TRUE
        /\ loadScrolls' = IF scrollOnLoad(initialLoadComplete, TRUE, mounted)
                          THEN loadScrolls + 1 ELSE loadScrolls
        /\ firstFetch' = IF fetches[i].first THEN "fulfilled" ELSE firstFetch
        /\ lastAction' = ConvEvent("conversation/getConversationMessages/fulfilled",
                                   fetches[i].userId, "response", initialLoadComplete)
        /\ UNCHANGED <<userId, translations, translating, cartVars, authVars, localStorage>>

\* A fetch fails: unwrap() rejects and then() is not run.
FetchRejected ==
    \E i \in 1..Len(fetches) :
        /\ fetches' = Without(fetches, i)
        /\ firstFetch' = IF fetches[i].first THEN "rejected" ELSE firstFetch
        /\ lastAction' = ConvEvent("conversation/getConversationMessages/rejected",
                                   fetches[i].userId, "response", initialLoadComplete)
        /\ UNCHANGED <<userId, initialLoadComplete, translations, translating,
                       loadScrolls, cartVars, authVars, localStorage>>

\* A click on the translate button of a message.
HandleTranslate ==
    \E messageId \in MessageIds :
        /\ IF translations[messageId] # Untranslated
           THEN /\ translations' = [translations EXCEPT
                                      ![messageId] = toggle(translations[messageId])]
                /\ UNCHANGED translating
           ELSE /\ Len(translating) < MaxTranslating
                /\ translating' = Append(translating, messageId)
                /\ UNCHANGED translations
        /\ lastAction' = ConvEvent("conversation/handleTranslate", messageId, "click",
                                   initialLoadComplete)
        /\ UNCHANGED <<userId, initialLoadComplete, fetches, loadScrolls, firstFetch,
                       cartVars, authVars, localStorage>>

TranslateSettled(i, text, type) ==
    /\ translating' = Without(translating, i)
    /\ translations' = [translations EXCEPT ![translating[i]] = Entry(text, FALSE)]
    /\ lastAction' = ConvEvent(type, translating[i], "response", initialLoadComplete)
    /\ UNCHANGED <<userId, initialLoadComplete, fetches, loadScrolls, firstFetch,
                   cartVars, authVars, localStorage>>

TranslateFulfilled ==
    \E i \in 1..Len(translating) :
        TranslateSettled(i, translated(content[translating[i]]),
                         "conversation/translate/fulfilled")

TranslateRejected ==
    \E i \in 1..Len(translating) :
        TranslateSettled(i, TranslationFailed, "conversation/translate/rejected")

ConvNext ==
    \/ ChangeCounterpart \/ FetchFulfilled \/ FetchRejected
    \/ HandleTranslate \/ TranslateFulfilled \/ TranslateRejected

(***************************************************************************)
(* Cart properties                                                         *)
(***************************************************************************)
IsAddToCart(a) == a.type = "cart/addToCart"

CartUnchanged ==
    /\ cartItems' = cartItems
    /\ farmerId' = farmerId
    /\ farmerName' = farmerName
    /\ localStorage'.cartItems = localStorage.cartItems

\* C1: with a line of farmer A in the cart, addToCart of an in-stock product
\* of another farmer, for a quantity within stock, changes neither cartItems,
\* farmerId, farmerName nor the stored "cartItems".
C1_CrossFarmerRejected ==
    [][(/\ IsAddToCart(lastAction')
        /\ \E i \in 1..Len(cartItems) :
              cartItems[i].farmerId # lastAction'.payload.product.farmer._id
        /\ lastAction'.payload.product.quantityAvailable > 0
        /\ lastAction'.payload.quantity <= lastAction'.payload.product.quantityAvailable)
       => CartUnchanged]_vars

C1_Witness ==
    /\ IsAddToCart(lastAction)
    /\ lastAction.toast = "error: one farm at a time"
    /\ Len(cartItems) > 0
    /\ cartItems[1].farmerId # lastAction.payload.product.farmer._id
    /\ lastAction.payload.product.quantityAvailable > 0
    /\ lastAction.payload.quantity <= lastAction.payload.product.quantityAvailable

\* C2: every cart line carries the cart-level farmerId (so all lines share
\* one farmerId).
C2_SingleFarmer ==
    \A i \in 1..Len(cartItems) : cartItems[i].farmerId = farmerId

C2_Witness ==
    /\ Len(cartItems) = 2
    /\ farmerId = "fB"
    /\ cartItems[1].farmerId = "fB"
    /\ cartItems[2].farmerId = "fB"
    /\ lastAction.type = "cart/updateCartQuantity"
    /\ lastAction.toast = "none"

\* C3: addToCart of a product that is out of stock, or for more than the
\* stock, or that would take the product's existing line above the stock,
\* leaves cartItems and the stored cart unchanged.
C3_StockRejected ==
    [][(/\ IsAddToCart(lastAction')
        /\ LET product == lastAction'.payload.product
               q == lastAction'.payload.quantity
           IN  \/ product.quantityAvailable <= 0
               \/ q > product.quantityAvailable
               \/ \E i \in 1..Len(cartItems) :
                     /\ cartItems[i].productId = product._id
                     /\ cartItems[i].quantity + q > product.quantityAvailable)
       => (cartItems' = cartItems /\ localStorage'.cartItems = localStorage.cartItems)]_vars

C3_Witness ==
    /\ IsAddToCart(lastAction)
    /\ lastAction.toast = "error: cannot add more"
    /\ lastAction.payload.product.quantityAvailable > 0
    /\ lastAction.payload.quantity > 0
    /\ lastAction.payload.quantity <= lastAction.payload.product.quantityAvailable
    /\ \E i \in 1..Len(cartItems) :
          /\ cartItems[i].productId = lastAction.payload.product._id
          /\ cartItems[i].quantity + lastAction.payload.quantity
                > lastAction.payload.product.quantityAvailable

\* C4: a cart without lines has farmerId and farmerName null, so that
\* addToCart of an in-stock product of any farmer, for a quantity within
\* stock, is accepted into the empty cart and sets the cart's farmer.
C4_EmptyCartHasNoFarmer ==
    /\ [](Len(cartItems) = 0 => (farmerId = null /\ farmerName = null))
    /\ [][(/\ IsAddToCart(lastAction')
           /\ Len(cartItems) = 0
           /\ lastAction'.payload.product.quantityAvailable > 0
           /\ lastAction'.payload.quantity <= lastAction'.payload.product.quantityAvailable)
          => (/\ cartItems' = <<NewLine(lastAction'.payload.product,
                                        lastAction'.payload.quantity)>>
              /\ farmerId' = lastAction'.payload.product.farmer._id
              /\ farmerName' = lastAction'.payload.product.farmer.name)]_vars

C4_Witness ==
    /\ lastAction.type = "cart/removeFromCart"
    /\ lastAction.linesBefore = 1
    /\ Len(cartItems) = 0
    /\ farmerId = null
    /\ farmerName = null

(***************************************************************************)
(* Cart properties: persistence, quantities                                *)
(***************************************************************************)
IsCartAction(a) ==
    a.type \in {"cart/addToCart", "cart/removeFromCart",
                "cart/updateCartQuantity", "cart/clearCart"}

\* The reducer returned early with an error notification.
Refused(a) ==
    a.toast \in {"error: out of stock", "error: only available",
                 "error: cannot add more", "error: one farm at a time",
                 "error: not found", "error: must be greater than 0"}

\* The cart read back from storage, an absent key being the empty cart.
storedCartItems ==
    IF localStorage.cartItems = Absent THEN <<>>
    ELSE JSONparse(localStorage.cartItems[1])

\* C12 as stated: after every cart operation, accepted or refused, the cart
\* stored under "cartItems" equals the in-memory cartItems.
C12_StoredCartEqualsCart ==
    IsCartAction(lastAction) => storedCartItems = cartItems

\* C12 amended: after every accepted cart operation the stored cart equals
\* the in-memory cartItems; a refused operation writes nothing and leaves
\* both the stored cart and cartItems as they were.
C12_AcceptedOperationSaves ==
    [][IsCartAction(lastAction') =>
         IF Refused(lastAction')
         THEN /\ localStorage'.cartItems = localStorage.cartItems
              /\ cartItems' = cartItems
         ELSE storedCartItems' = cartItems']_vars

C12_Witness ==
    /\ lastAction.type = "cart/updateCartQuantity"
    /\ ~Refused(lastAction)
    /\ Len(cartItems) = 2
    /\ localStorage.cartItems = Stored(JSONstringify(cartItems))

\* C13: updateCartQuantity with a quantity <= 0 or a productId without a line
\* changes nothing; otherwise it sets that line's quantity to the value
\* given, whatever the stock, and leaves the other lines, the order,
\* farmerId and farmerName as they were.
C13_UpdateCartQuantity ==
    [][lastAction'.type = "cart/updateCartQuantity" =>
        LET productId == lastAction'.payload.productId
            quantity == lastAction'.payload.quantity
            k == find(cartItems, productId)
        IN  IF quantity <= 0 \/ k = 0
            THEN CartUnchanged
            ELSE /\ cartItems' = [cartItems EXCEPT ![k].quantity = quantity]
                 /\ farmerId' = farmerId
                 /\ farmerName' = farmerName]_vars

C13_Witness ==
    /\ lastAction.type = "cart/updateCartQuantity"
    /\ lastAction.payload.quantity = MaxStock + 1
    /\ Len(cartItems) = 2
    /\ cartItems[2].productId = lastAction.payload.productId
    /\ cartItems[2].quantity = MaxStock + 1
    /\ cartItems[1].quantity = 1

\* C16: an accepted addToCart adds the quantity to the product's existing
\* line and changes nothing else, or appends one line with that quantity
\* when the product has none; into an empty cart it sets farmerId and
\* farmerName from the product; the line then holds no more than the
\* product's quantityAvailable.
C16_AcceptedAdd ==
    [][(IsAddToCart(lastAction') /\ ~Refused(lastAction')) =>
        LET product == lastAction'.payload.product
            quantity == lastAction'.payload.quantity
            k == find(cartItems, product._id)
        IN  /\ IF k # 0
               THEN /\ cartItems' = [cartItems EXCEPT ![k].quantity = @ + quantity]
                    /\ cartItems'[k].quantity <= product.quantityAvailable
               ELSE /\ Len(cartItems') = Len(cartItems) + 1
                    /\ SubSeq(cartItems', 1, Len(cartItems)) = cartItems
                    /\ cartItems'[Len(cartItems')].productId = product._id
                    /\ cartItems'[Len(cartItems')].quantity = quantity
                    /\ quantity <= product.quantityAvailable
            /\ Len(cartItems) = 0 =>
                  /\ farmerId' = product.farmer._id
                  /\ farmerName' = product.farmer.name
            /\ Len(cartItems) # 0 =>
                  /\ farmerId' = farmerId
                  /\ farmerName' = farmerName]_vars

C16_Witness ==
    /\ IsAddToCart(lastAction)
    /\ lastAction.toast = "info: updated quantity"
    /\ lastAction.payload.quantity = 1
    /\ Len(cartItems) = 2
    /\ cartItems[1].productId = lastAction.payload.product._id
    /\ cartItems[1].quantity = 2

\* C20: every cart line has a quantity greater than 0.
C20_PositiveQuantities ==
    \A i \in 1..Len(cartItems) : cartItems[i].quantity > 0

(***************************************************************************)
(* Auth properties                                                         *)
(***************************************************************************)
FailureMessages == {errorMessage(err) : err \in Errors}

SessionUnchanged ==
    /\ token' = token
    /\ user' = user
    /\ isAuthenticated' = isAuthenticated
    /\ localStorage'.token = localStorage.token
    /\ localStorage'.user = localStorage.user

SessionDestroyed ==
    /\ token = null
    /\ user = null
    /\ isAuthenticated = FALSE
    /\ localStorage.token = Absent
    /\ localStorage.user = Absent

\* C5: a fulfilled login puts the returned token and user into the state and
\* under the storage keys "token" and "user" and sets isAuthenticated; a
\* rejected login leaves a false isAuthenticated false and sets error to a
\* failure message.
C5_LoginOutcome ==
    [][/\ lastAction'.type = "auth/login/fulfilled" =>
            /\ token' = lastAction'.payload.token
            /\ user' = lastAction'.payload.user
            /\ localStorage'.token = Stored(lastAction'.payload.token)
            /\ localStorage'.user = Stored(JSONstringify(lastAction'.payload.user))
            /\ isAuthenticated' = TRUE
       /\ lastAction'.type = "auth/login/rejected" =>
            /\ ~isAuthenticated => ~isAuthenticated'
            /\ error' \in FailureMessages
            /\ error' = lastAction'.payload]_vars

C5_Witness ==
    /\ lastAction.type = "auth/login/fulfilled"
    /\ token = "t2"
    /\ user = "u2"
    /\ localStorage.token = Stored("t2")
    /\ localStorage.user = Stored(JSONstringify("u2"))
    /\ isAuthenticated

C5_WitnessFailed ==
    /\ lastAction.type = "auth/login/rejected"
    /\ ~isAuthenticated
    /\ error = "Invalid credentials"

\* C6: loadUser dispatched while neither the state nor storage holds a token
\* is rejected with "No token found" and sends no request.
C6_NoTokenNoRequest ==
    [][(/\ lastAction'.on = "dispatch"
        /\ lastAction'.type \in {"auth/loadUser/pending", "auth/loadUser/rejected"}
        /\ token = null
        /\ localStorage.token = Absent)
       => (/\ lastAction'.type = "auth/loadUser/rejected"
           /\ lastAction'.payload = NoTokenFound
           /\ inflight' = inflight)]_vars

\* C7: a rejected register or login changes neither token, user,
\* isAuthenticated nor the storage keys "token" and "user".
C7_FailureKeepsSession ==
    [][lastAction'.type \in {"auth/register/rejected", "auth/login/rejected"}
       => SessionUnchanged]_vars

C7_Witness ==
    /\ lastAction.type \in {"auth/register/rejected", "auth/login/rejected"}
    /\ token # null
    /\ user # null
    /\ isAuthenticated
    /\ localStorage.token = Stored(token)
    /\ error \in FailureMessages

\* C8: after a rejected loadUser (no token, or a failed request) token and
\* user are null, isAuthenticated is false and the storage keys "token" and
\* "user" are absent.
C8_FailedLoadDestroysSession ==
    lastAction.type = "auth/loadUser/rejected" => SessionDestroyed

C8_Witness ==
    /\ lastAction.type = "auth/loadUser/rejected"
    /\ lastAction.on = "response"
    /\ tokenFromStorage # null
    /\ SessionDestroyed

\* C9 as stated: every rejected register, login, loadUser and updateProfile
\* sets error to its failure message.
C9_EveryFailureSetsError ==
    [][lastAction'.type \in {"auth/register/rejected", "auth/login/rejected",
                             "auth/loadUser/rejected", "auth/updateProfile/rejected"}
       => (error' = lastAction'.payload /\ error' # null)]_vars

\* C9 amended: a rejected register, login or updateProfile sets error to its
\* failure message; a rejected loadUser does not set error, which stays null
\* when loadUser had no token and is otherwise left as it was.
C9_FailureSetsErrorExceptLoadUser ==
    [][/\ lastAction'.type \in {"auth/register/rejected", "auth/login/rejected",
                                "auth/updateProfile/rejected"}
            => (error' = lastAction'.payload /\ error' # null)
       /\ (lastAction'.type = "auth/loadUser/rejected" /\ lastAction'.on = "response")
            => error' = error
       /\ (lastAction'.type = "auth/loadUser/rejected" /\ lastAction'.on = "dispatch")
            => error' = null]_vars

C9_Witness ==
    /\ lastAction.type = "auth/loadUser/rejected"
    /\ lastAction.on = "response"
    /\ lastAction.payload = "Network Error"
    /\ error = null

\* C10: logout leaves token and user null, isAuthenticated false, the storage
\* keys "token" and "user" absent, and sends no request.
C10_Logout ==
    [][lastAction'.type = "auth/logout/fulfilled"
       => (SessionDestroyed' /\ inflight' = inflight)]_vars

C10_Witness ==
    /\ lastAction.type = "auth/logout/fulfilled"
    /\ tokenFromStorage # null
    /\ SessionDestroyed
    /\ inflight # <<>>

(***************************************************************************)
(* Auth properties: storage agreement, overlapping operations              *)
(***************************************************************************)
storedToken ==
    IF localStorage.token = Absent THEN null ELSE localStorage.token[1]

storedUser ==
    IF localStorage.user = Absent THEN null ELSE JSONparse(localStorage.user[1])

\* C14: whenever no auth request is in flight, the stored "token" equals
\* state.token and the stored "user" equals state.user (absent key = null).
C14_StorageAgreesWithState ==
    inflight = <<>> => (storedToken = token /\ storedUser = user)

SessionIs(data) ==
    /\ token = data.token
    /\ user = data.user
    /\ localStorage.token = Stored(data.token)
    /\ localStorage.user = Stored(JSONstringify(data.user))

\* C15: a fulfilled login or register overwrites the session, in the state
\* and in storage, with its own token and user whatever was sent or
\* fulfilled before it, and a rejected one leaves the session alone; so once
\* overlapping operations have all completed the session is that of the one
\* fulfilled last, whatever the order in which they were sent.
C15_LastFulfilledWins ==
    [][/\ lastAction'.type \in {"auth/login/fulfilled", "auth/register/fulfilled"}
            => /\ token' = lastAction'.payload.token
               /\ user' = lastAction'.payload.user
               /\ localStorage'.token = Stored(lastAction'.payload.token)
               /\ localStorage'.user = Stored(JSONstringify(lastAction'.payload.user))
       /\ lastAction'.type \in {"auth/login/rejected", "auth/register/rejected"}
            => SessionUnchanged]_vars

\* The operation sent first is fulfilled last, after a later one had already
\* set the session.
C15_Witness ==
    /\ lastAction.type \in {"auth/login/fulfilled", "auth/register/fulfilled"}
    /\ lastAction.overtaken
    /\ \A i \in 1..Len(inflight) : inflight[i].thunk \notin SessionThunks
    /\ SessionIs(lastAction.payload)

\* C19: isAuthenticated is true only if token is non-null.
C19_AuthenticatedHasToken ==
    isAuthenticated => token # null

(***************************************************************************)
(* Conversation page properties                                            *)
(***************************************************************************)
InTranslation(messageId) ==
    \E i \in 1..Len(translating) : translating[i] = messageId

\* C11: only the first translate click on a message sends a request; a later
\* click on it, before or after the response, sends none and flips
\* showOriginal.
C11_OnlyFirstClickRequests ==
    [][(/\ lastAction'.type = "conversation/handleTranslate"
        /\ \/ translations[lastAction'.payload] # Untranslated
           \/ InTranslation(lastAction'.payload))
       => (/\ translating' = translating
           /\ translations[lastAction'.payload] # Untranslated
           /\ translations'[lastAction'.payload] = toggle(translations[lastAction'.payload]))]_vars

\* C17: a failed translation request stores the failure marker with
\* showOriginal false, and from then on the message keeps the marker (clicks
\* only flip showOriginal) and no translation request is sent for it.
C17_FailureMarkerStays ==
    [][/\ lastAction'.type = "conversation/translate/rejected"
            => translations'[lastAction'.payload] = Entry(TranslationFailed, FALSE)
       /\ \A m \in MessageIds :
            (translations[m] # Untranslated /\ translations[m][1].translated = TranslationFailed)
            => /\ translations'[m] # Untranslated
               /\ translations'[m][1].translated = TranslationFailed
               /\ Len(SelectSeq(translating', LAMBDA x : x = m))
                    <= Len(SelectSeq(translating, LAMBDA x : x = m))]_vars

\* C18 as stated: the initial-load effect scrolls at most once, only after a
\* fetch has succeeded, and not at all if the first fetch failed.
C18_ScrollOnceUnlessFirstFetchFailed ==
    /\ loadScrolls <= 1
    /\ loadScrolls > 0 => initialLoadComplete
    /\ firstFetch = "rejected" => loadScrolls = 0

\* C18 amended: the initial-load effect scrolls at most once, and only in the
\* step in which a fetch succeeds for the first time; a failed fetch, and any
\* fetch after a successful one, scrolls nothing.
C18_ScrollOnceOnFirstSuccess ==
    [][/\ loadScrolls' <= 1
       /\ loadScrolls' > 0 => initialLoadComplete'
       /\ loadScrolls' # loadScrolls =>
            /\ lastAction'.type = "conversation/getConversationMessages/fulfilled"
            /\ ~initialLoadComplete
            /\ loadScrolls' = 1]_vars

\* A fetch for a changed counterpart succeeds after the scroll was made.
C18_Witness ==
    /\ lastAction.type = "conversation/getConversationMessages/fulfilled"
    /\ lastAction.wasComplete
    /\ lastAction.payload = userId
    /\ loadScrolls = 1
    /\ firstFetch = "fulfilled"

(***************************************************************************)
(* Distinct lines, loading flag                                            *)
(***************************************************************************)
\* C21: no two cart lines have the same productId.
C21_DistinctProducts ==
    \A i, j \in 1..Len(cartItems) :
        cartItems[i].productId = cartItems[j].productId => i = j

\* An addToCart for a product already in the cart was merged into its line.
C21_Witness ==
    /\ IsAddToCart(lastAction)
    /\ lastAction.toast = "info: updated quantity"
    /\ lastAction.linesBefore = 2
    /\ Len(cartItems) = 2
    /\ cartItems[1].productId # cartItems[2].productId

\* C22: loading is true whenever a register, login, loadUser or
\* updateProfile request has been sent and has not yet been answered.
C22_LoadingWhileInFlight ==
    inflight # <<>> => loading = TRUE

(***************************************************************************)
(* Start-up                                                                *)
(***************************************************************************)
\* A cart line as older versions of the client stored it: no product field.
LegacyLine ==
    [productId |-> "p1", quantity |-> 1, farmerId |-> "fA", farmerName |-> "Asha",
     product |-> <<>>]

\* What an earlier run of the client can have left in storage.
InitialStorage ==
    {[token |-> Absent, user |-> Absent, cartItems |-> Absent],
     [token |-> Stored("t1"), user |-> Stored(JSONstringify("u1")), cartItems |-> Absent],
     [token |-> Absent, user |-> Stored(JSONstringify("u1")), cartItems |-> Absent],
     [token |-> Absent, user |-> Absent, cartItems |-> Stored(JSONstringify(<<LegacyLine>>))]}

Init ==
    /\ localStorage \in InitialStorage
    /\ tokenFromStorage = IF localStorage.token # Absent THEN localStorage.token[1] ELSE null
    /\ token = tokenFromStorage
    /\ user = IF localStorage.user # Absent THEN JSONparse(localStorage.user[1]) ELSE null
    /\ isAuthenticated = (tokenFromStorage # null)
    /\ loading = FALSE
    /\ error = null
    /\ inflight = <<>>
    /\ cartItems = cartInitialState(localStorage).cartItems
    /\ farmerId = cartInitialState(localStorage).farmerId
    /\ farmerName = cartInitialState(localStorage).farmerName
    /\ lastAction = [type |-> "@@INIT", payload |-> null, toast |-> "none",
                     on |-> "dispatch", linesBefore |-> 0]
    /\ userId = "buyer1"
    /\ initialLoadComplete = FALSE
    /\ translations = [m \in MessageIds |-> Untranslated]
    /\ fetches = <<Fetch(userId, TRUE)>>
    /\ translating = <<>>
    /\ loadScrolls = 0
    /\ firstFetch = "pending"

\* The slices and the page do not read one another's state: each is explored
\* from the start-up states that differ in what it reads.
CartInit == Init /\ localStorage.token = Absent /\ localStorage.user = Absent

AuthInit == Init /\ localStorage.cartItems = Absent

ConvInit == Init /\ localStorage = [token |-> Absent, user |-> Absent, cartItems |-> Absent]

CartSpec == CartInit /\ [][CartNext]_vars

AuthSpec == AuthInit /\ [][AuthNext]_vars

ConvSpec == ConvInit /\ [][ConvNext]_vars

Next == CartNext \/ AuthNext \/ ConvNext

Spec == Init /\ [][Next]_vars

====
